---- MODULE Spec2Model ----
(***************************************************************************)
(* CartPole simulator (src/app/page.tsx): the physics integrator, the      *)
(* policy network, the episodic trainer and the Home component that drives *)
(* them.                                                                   *)
(*                                                                         *)
(* Numbers.  A JavaScript number is modelled as a fixed-point integer, in  *)
(* units of 1/Scale, with the three non-finite values of IEEE-754 kept as  *)
(* distinct values (NaN, PosInf, NegInf).  A finite result whose magnitude *)
(* exceeds FMax overflows to an infinity, as a double does beyond          *)
(* Number.MAX_VALUE.  Math.sin, Math.cos, Math.tanh and Math.exp are       *)
(* library code; they are modelled by short series that keep their sign,   *)
(* range and monotonicity on the values the program feeds them.            *)
(***************************************************************************)
EXTENDS Integers, Sequences, FiniteSets, TLC

Scale == 1000
FMax == 2000000

PosInf == FMax + 1
NegInf == 0 - (FMax + 1)
NaN == FMax + 2

IsFinite(a) == a > NegInf /\ a < PosInf
Sign(a) == IF a > 0 THEN 1 ELSE IF a < 0 THEN 0 - 1 ELSE 0
Abs(n) == IF n < 0 THEN 0 - n ELSE n

\* n / d for integers, d > 0, rounded to the nearest integer, ties away from 0
RoundDiv(n, d) ==
  IF n >= 0 THEN (n + d \div 2) \div d ELSE 0 - ((0 - n + d \div 2) \div d)

\* a finite value, or the infinity it overflows to
Overflow(n) == IF n > FMax THEN PosInf ELSE IF n < 0 - FMax THEN NegInf ELSE n

\* IEEE-754 a + b
FAdd(a, b) ==
  IF IsFinite(a) /\ IsFinite(b) THEN Overflow(a + b)
  ELSE IF a = NaN \/ b = NaN THEN NaN
  ELSE IF ~IsFinite(a) THEN (IF ~IsFinite(b) /\ a # b THEN NaN ELSE a)
  ELSE b

FNeg(a) == IF a = NaN THEN NaN ELSE 0 - a

\* IEEE-754 a - b
FSub(a, b) == FAdd(a, FNeg(b))

\* IEEE-754 a * b; the product overflows when |a * b| / Scale exceeds FMax
FMul(a, b) ==
  IF IsFinite(a) /\ IsFinite(b)
  THEN (IF b = 0 THEN 0
        ELSE IF Abs(a) > (FMax * Scale) \div Abs(b)
             THEN (IF Sign(a) * Sign(b) > 0 THEN PosInf ELSE NegInf)
        ELSE RoundDiv(a * b, Scale))
  ELSE IF a = NaN \/ b = NaN THEN NaN
  ELSE IF a = 0 \/ b = 0 THEN NaN
  ELSE IF Sign(a) * Sign(b) > 0 THEN PosInf ELSE NegInf

\* IEEE-754 a / b (a zero is +0)
FDiv(a, b) ==
  IF IsFinite(a) /\ IsFinite(b)
  THEN (IF b > 0 THEN Overflow(RoundDiv(a * Scale, b))
        ELSE IF b < 0 THEN Overflow(0 - RoundDiv(a * Scale, 0 - b))
        ELSE IF a = 0 THEN NaN ELSE IF a > 0 THEN PosInf ELSE NegInf)
  ELSE IF a = NaN \/ b = NaN THEN NaN
  ELSE IF ~IsFinite(a)
       THEN (IF ~IsFinite(b) THEN NaN
             ELSE IF Sign(a) * (IF b < 0 THEN 0 - 1 ELSE 1) > 0 THEN PosInf ELSE NegInf)
  ELSE 0

\* a > b and a < b on numbers: false when either side is NaN
FGt(a, b) == a # NaN /\ b # NaN /\ a > b
FLt(a, b) == a # NaN /\ b # NaN /\ a < b

\* Math.abs
MathAbs(a) == IF a = NaN THEN NaN ELSE Abs(a)

\* Math.max of two numbers
MathMax(a, b) == IF a = NaN \/ b = NaN THEN NaN ELSE IF a > b THEN a ELSE b

\* the number n/d as a fixed-point value
Num(n, d) == RoundDiv(n * Scale, d)

\* Math.sin and Math.cos, by their Taylor polynomials (angles stay below 1 rad)
MathSin(a) ==
  IF ~IsFinite(a) THEN NaN
  ELSE LET a2 == FMul(a, a)
           a3 == FMul(a2, a)
           a5 == FMul(a3, a2)
       IN  FAdd(FSub(a, FDiv(a3, Num(6, 1))), FDiv(a5, Num(120, 1)))

MathCos(a) ==
  IF ~IsFinite(a) THEN NaN
  ELSE LET a2 == FMul(a, a)
           a4 == FMul(a2, a2)
       IN  FAdd(FSub(Num(1, 1), FDiv(a2, Num(2, 1))), FDiv(a4, Num(24, 1)))

\* Math.tanh: odd, increasing, within [-1, 1]; the Pade form x(27+x^2)/(27+9x^2)
\* up to |x| = 3, where it reaches 1
MathTanh(a) ==
  IF a = NaN THEN NaN
  ELSE IF a >= Num(3, 1) THEN Num(1, 1)
  ELSE IF a <= 0 - Num(3, 1) THEN 0 - Num(1, 1)
  ELSE LET a2 == FMul(a, a)
       IN  FDiv(FMul(a, FAdd(Num(27, 1), a2)),
                FAdd(Num(27, 1), FMul(Num(9, 1), a2)))

\* Math.exp on the non-positive arguments softmax feeds it (logit - maxLogit):
\* exp(-d) = 1 / exp(d), exp(d) by its series, so the result lies in (0, 1]
MathExp(a) ==
  IF a = NaN THEN NaN
  ELSE IF a = NegInf THEN 0
  ELSE IF a = PosInf THEN PosInf
  ELSE IF a > 0 THEN
       LET a2 == FMul(a, a)
       IN  FAdd(FAdd(Num(1, 1), a), FAdd(FDiv(a2, Num(2, 1)),
                FDiv(FMul(a2, a), Num(6, 1))))
  ELSE LET d == 0 - a
           d2 == FMul(d, d)
       IN  FDiv(Num(1, 1),
                FAdd(FAdd(Num(1, 1), d), FAdd(FDiv(d2, Num(2, 1)),
                     FDiv(FMul(d2, d), Num(6, 1)))))

(***************************************************************************)
(* Physical constants (page.tsx lines 20-29)                               *)
(***************************************************************************)
gravity == Num(98, 10)
massCart == Num(1, 1)
massPole == Num(1, 10)
totalMass == FAdd(massCart, massPole)
length == Num(5, 10)
poleMassLength == FMul(massPole, length)
forceMag == Num(10, 1)
tau == Num(2, 100)
trackLimit == Num(24, 10)
MathPI == Num(31416, 10000)
angleLimit == FDiv(FMul(Num(12, 1), MathPI), Num(180, 1))

\* the locals of stepCartPole (lines 246-262), each from the values it reads
temp(force, thetaDot, sinTheta) ==
  FDiv(FAdd(force, FMul(FMul(FMul(poleMassLength, thetaDot), thetaDot), sinTheta)),
       totalMass)

thetaAcc(sinTheta, cosTheta, tmp) ==
  FDiv(FSub(FMul(gravity, sinTheta), FMul(cosTheta, tmp)),
       FMul(length,
            FSub(FDiv(Num(4, 1), Num(3, 1)),
                 FDiv(FMul(FMul(massPole, cosTheta), cosTheta), totalMass))))

xAcc(tmp, thAcc, cosTheta) ==
  FSub(tmp, FDiv(FMul(FMul(poleMassLength, thAcc), cosTheta), totalMass))

nextState(state, xAc, thAcc) ==
  [x |-> FAdd(state.x, FMul(tau, state.xDot)),
   xDot |-> FAdd(state.xDot, FMul(tau, xAc)),
   theta |-> FAdd(state.theta, FMul(tau, state.thetaDot)),
   thetaDot |-> FAdd(state.thetaDot, FMul(tau, thAcc))]

\* a terminal test that looks at the position only
doneTrackOnly(next) == FGt(MathAbs(next.x), trackLimit)

\* a terminal test that also counts a value at its limit as beyond it
doneAtLimit(next) ==
  ~FLt(MathAbs(next.x), trackLimit) \/ ~FLt(MathAbs(next.theta), angleLimit)

done(next) ==
  FGt(MathAbs(next.x), trackLimit) \/ FGt(MathAbs(next.theta), angleLimit)

\* stepCartPole from nextState on, from thetaAcc on and from temp on
StepFromNextState(next) == [nextState |-> next, done |-> done(next)]

StepFromThetaAcc(state, cosTheta, tmp, thAcc) ==
  StepFromNextState(nextState(state, xAcc(tmp, thAcc, cosTheta), thAcc))

StepFromTemp(state, sinTheta, cosTheta, tmp) ==
  StepFromThetaAcc(state, cosTheta, tmp, thetaAcc(sinTheta, cosTheta, tmp))

\* stepCartPole(state, action): one explicit-Euler step and the terminal test
stepCartPole(state, action) ==
  LET sinTheta == MathSin(state.theta)
      cosTheta == MathCos(state.theta)
      force == FMul(Num(action, 1), forceMag)
  IN  StepFromTemp(state, sinTheta, cosTheta,
                   temp(force, state.thetaDot, sinTheta))

\* createInitialState on the client, r1 and r2 the two Math.random() draws
createInitialState(r1, r2) ==
  [x |-> FMul(FSub(r1, Num(5, 10)), Num(4, 10)),
   xDot |-> 0,
   theta |-> FMul(FSub(r2, Num(5, 10)), Num(2, 10)),
   thetaDot |-> 0]

(***************************************************************************)
(* Policy network (page.tsx lines 34-187).  An array of the source is a    *)
(* tuple; element k of the source (from 0) is element k + 1 of the tuple.  *)
(***************************************************************************)
inputSize == 4
hiddenSize == 8
outputSize == 2

learningRate == Num(2, 100)
discountFactor == Num(99, 100)

\* init + term(1) + ... + term(n), added in that order
Sum(term(_), init, n) ==
  LET S[k \in 0..n] == IF k = 0 THEN init ELSE FAdd(S[k - 1], term(k))
  IN  S[n]

\* the array whose elements are f[1], ..., f[n], each computed once
Arr(f) == <<>> \o f

\* Array(n).fill(v)
Fill(n, v) == Arr([k \in 1..n |-> v])

\* randomWeight: (Math.random() * 2 - 1) * 0.3
randomWeight(r) == FMul(FSub(FMul(r, Num(2, 1)), Num(1, 1)), Num(3, 10))

\* initializeNetwork, rs the Math.random() draws in the order they are made
initializeNetwork(rs) ==
  [W1 |-> Arr([k \in 1..(hiddenSize * inputSize) |-> randomWeight(rs[k])]),
   b1 |-> Fill(hiddenSize, 0),
   W2 |-> Arr([k \in 1..(outputSize * hiddenSize) |->
                 randomWeight(rs[hiddenSize * inputSize + k])]),
   b2 |-> Fill(outputSize, 0)]

stateToVector(state) == <<state.x, state.xDot, state.theta, state.thetaDot>>

\* Math.max(...values)
RECURSIVE MathMaxAll(_, _)
MathMaxAll(values, k) ==
  IF k = Len(values) THEN values[k]
  ELSE MathMax(values[k], MathMaxAll(values, k + 1))

\* forwardNetwork: tanh hidden layer, softmax over the logits less their maximum
forwardNetwork(params, inputVector) ==
  LET hidden == Arr([i \in 1..hiddenSize |->
        MathTanh(Sum(LAMBDA j : FMul(params.W1[(i - 1) * inputSize + j],
                                     inputVector[j]),
                     params.b1[i], inputSize))])
      logits == Arr([o \in 1..outputSize |->
        Sum(LAMBDA h : FMul(params.W2[(o - 1) * hiddenSize + h], hidden[h]),
            params.b2[o], hiddenSize)])
      maxLogit == MathMaxAll(logits, 1)
      exps == Arr([o \in 1..outputSize |-> MathExp(FSub(logits[o], maxLogit))])
      denom == Sum(LAMBDA o : exps[o], 0, outputSize)
      probs == Arr([o \in 1..outputSize |-> FDiv(exps[o], denom)])
  IN  [hidden |-> hidden, probs |-> probs]

\* a sampling loop that also returns i when the draw equals the cumulative mass
RECURSIVE SampleFromAtOrBelow(_, _, _, _)
SampleFromAtOrBelow(probabilities, r, cumulative, i) ==
  IF i >= Len(probabilities) THEN Len(probabilities) - 1
  ELSE LET c == FAdd(cumulative, probabilities[i + 1])
       IN  IF ~FGt(r, c) /\ c # NaN THEN i
           ELSE SampleFromAtOrBelow(probabilities, r, c, i + 1)

\* the loop of sampleActionIndex from index i (of the source) on
RECURSIVE SampleFrom(_, _, _, _)
SampleFrom(probabilities, r, cumulative, i) ==
  IF i >= Len(probabilities) THEN Len(probabilities) - 1
  ELSE LET c == FAdd(cumulative, probabilities[i + 1])
       IN  IF FLt(r, c) THEN i ELSE SampleFrom(probabilities, r, c, i + 1)

\* sampleActionIndex, r the Math.random() draw; the result is an index from 0
sampleActionIndex(probabilities, r) == SampleFrom(probabilities, r, 0, 0)

\* a returns array that adds up the later rewards without discounting them
ReturnsUndiscounted(trajectory) ==
  LET n == Len(trajectory)
      R[t \in 1..(n + 1)] ==
        IF t = n + 1 THEN 0 ELSE FAdd(trajectory[t].reward, R[t + 1])
  IN  Arr([t \in 1..n |-> R[t]])

\* the returns array of trainOnEpisode: returns[t] = reward[t] + 0.99 * returns[t+1]
Returns(trajectory) ==
  LET n == Len(trajectory)
      R[t \in 1..(n + 1)] ==
        IF t = n + 1 THEN 0
        ELSE FAdd(trajectory[t].reward, FMul(discountFactor, R[t + 1]))
  IN  Arr([t \in 1..n |-> R[t]])

\* the gradients trainOnEpisode has accumulated when its loop over the steps
\* ends (lines 139-177)
Gradients(params, trajectory) ==
  LET n == Len(trajectory)
      returns == Returns(trajectory)
      \* delta2[t][o] and delta1[t][h] of the loop over the steps
      delta2 == Arr([t \in 1..n |-> Arr([o \in 1..outputSize |->
        FMul(FSub(IF trajectory[t].actionIndex = o - 1 THEN Num(1, 1) ELSE 0,
                  trajectory[t].probs[o]),
             returns[t])])])
      delta1 == Arr([t \in 1..n |-> Arr([h \in 1..hiddenSize |->
        FMul(FSub(Num(1, 1), FMul(trajectory[t].hidden[h], trajectory[t].hidden[h])),
             Sum(LAMBDA o : FMul(params.W2[(o - 1) * hiddenSize + h], delta2[t][o]),
                 0, outputSize))])])
  IN  [gradW1 |-> Arr([k \in 1..(hiddenSize * inputSize) |->
         Sum(LAMBDA t : FMul(delta1[t][((k - 1) \div inputSize) + 1],
                             trajectory[t].state[((k - 1) % inputSize) + 1]),
             0, n)]),
       gradb1 |-> Arr([h \in 1..hiddenSize |-> Sum(LAMBDA t : delta1[t][h], 0, n)]),
       gradW2 |-> Arr([k \in 1..(outputSize * hiddenSize) |->
         Sum(LAMBDA t : FMul(delta2[t][((k - 1) \div hiddenSize) + 1],
                             trajectory[t].hidden[((k - 1) % hiddenSize) + 1]),
             0, n)]),
       gradb2 |-> Arr([o \in 1..outputSize |-> Sum(LAMBDA t : delta2[t][o], 0, n)])]

\* lines 181-186: params with the gradients g, scaled, added to every entry
ApplyGradients(params, g, scale) ==
  [W1 |-> Arr([k \in 1..(hiddenSize * inputSize) |->
                 FAdd(params.W1[k], FMul(scale, g.gradW1[k]))]),
   b1 |-> Arr([k \in 1..hiddenSize |->
                 FAdd(params.b1[k], FMul(scale, g.gradb1[k]))]),
   W2 |-> Arr([k \in 1..(outputSize * hiddenSize) |->
                 FAdd(params.W2[k], FMul(scale, g.gradW2[k]))]),
   b2 |-> Arr([k \in 1..outputSize |->
                 FAdd(params.b2[k], FMul(scale, g.gradb2[k]))])]

\* a trainer without the early return of lines 134-136 that divides the
\* learning rate by the trajectory length itself
trainOnEpisodeUnguarded(params, trajectory) ==
  ApplyGradients(params, Gradients(params, trajectory),
                 FDiv(learningRate, Num(Len(trajectory), 1)))

\* trainOnEpisode: the parameter set it returns
trainOnEpisode(params, trajectory) ==
  IF Len(trajectory) = 0 THEN params
  ELSE ApplyGradients(params, Gradients(params, trajectory),
                      FDiv(learningRate,
                           MathMax(Num(1, 1), Num(Len(trajectory), 1))))

\* a trainer that adds the scaled gradients into the arrays of params itself
trainOnEpisodeArgsInPlace(params, trajectory) ==
  [params |-> trainOnEpisode(params, trajectory), trajectory |-> trajectory]

\* trainOnEpisode: its two arguments as the call leaves them. Every array it
\* writes (gradW1, gradb1, gradW2, gradb2, returns, delta2, delta1: lines
\* 139-165) is one it allocated, and the result is built by map (lines 181-186)
trainOnEpisodeArgs(params, trajectory) ==
  [params |-> params, trajectory |-> trajectory]

(***************************************************************************)
(* Home (page.tsx lines 398-596).                                          *)
(*                                                                         *)
(* JavaScript runs each callback to completion, and React applies the      *)
(* queued state updaters in order.  A click is a discrete event: React     *)
(* renders and runs the effects of that render before the event returns,   *)
(* so no animation frame fires between a handler and its effects.  An      *)
(* action is therefore one callback together with the render it causes and *)
(* the effects that render runs.  Spec takes the same of an animation      *)
(* frame, which holds when React renders and runs the effects within the   *)
(* frame; SpecDeferred below makes that render and the [state] effect      *)
(* steps of their own.  requestAnimationFrame is the set `frames` of       *)
(* pending callbacks, each with its handle and the controlMode its closure *)
(* captured.                                                               *)
(***************************************************************************)
MaxEpisodes == 2
MaxSteps == 9
MaxClicks == 2

\* the values Math.random() is drawn from: in createInitialState, and where an
\* action is chosen
InitDraws == {0}
ActionDraws == {Num(3, 4)}
\* the draws of a Math.random() call, when the branch taken makes the call
Draws(values, called) == IF called THEN values ELSE {0}
\* the draws of one initializeNetwork call
WeightDraws == {[k \in 1..(hiddenSize * inputSize + outputSize * hiddenSize)
                   |-> Num((k * 3) % 7, 7)]}

Modes == {"neural", "heuristic", "random"}
null == 0
\* useState<NetworkParams | null>(null): the parameter set before mount
noNetwork == [W1 |-> <<>>, b1 |-> <<>>, W2 |-> <<>>, b2 |-> <<>>]

VARIABLES
  isRunning, controlMode, state, metrics, network, activations, trainingStats,
  stateRef, animationRef, networkRef, trajectoryRef,
  frames,
  \* history variables: they record what happened; clicks, completed and
  \* episodeTicks also bound the runs explored
  clicks, completed, neuralTicks, episodeTicks, maxLast, stepModes, produced,
  trainedModes, intact, reinits,
  \* the value of `state` in the latest commit, and whether the [state]
  \* effect of that commit (lines 594-596) has still to run; `state` itself
  \* is the value the latest setState call was given
  rendered, effectPending,
  \* a call of one function of the module on its own: the arguments it is
  \* given and what it returned
  args, returned

progVars == <<isRunning, controlMode, state, metrics, network, activations,
              trainingStats, stateRef, animationRef, networkRef, trajectoryRef,
              frames>>
homeVars == <<isRunning, controlMode, state, metrics, network, activations,
              trainingStats, stateRef, animationRef, networkRef, trajectoryRef,
              frames, clicks, completed, neuralTicks, episodeTicks, maxLast,
              stepModes, produced, trainedModes, intact, reinits,
              rendered, effectPending>>
vars == <<homeVars, args, returned>>

\* no function is being called on its own
noCall == [fn |-> "none"]

zeroActivations ==
  [input |-> Fill(inputSize, 0), hidden |-> Fill(hiddenSize, 0),
   output |-> Fill(outputSize, 0)]

\* requestAnimationFrame: a handle no pending callback (nor `held`) has
NewHandle(pending, held) ==
  CHOOSE id \in 1..(Cardinality(pending) + 2) :
    id # held /\ \A f \in pending : f.id # id

\* a cancelAnimationFrame that leaves the callback pending
cancelAnimationFrameIgnored(pending, handle) == pending

\* cancelAnimationFrame(handle)
cancelAnimationFrame(pending, handle) == {f \in pending : f.id # handle}

\* the effect on [isRunning, controlMode] (lines 447-557): the cleanup of the
\* previous run, then the body, on <<animationRef, frames>>
LoopCleanup(wasRunning, ref, pending) ==
  IF wasRunning /\ ref # null
  THEN [ref |-> null, frames |-> cancelAnimationFrame(pending, ref)]
  ELSE [ref |-> ref, frames |-> pending]

LoopBody(running, mode, ref, pending) ==
  IF ~running
  THEN (IF ref # null
        THEN [ref |-> null, frames |-> cancelAnimationFrame(pending, ref)]
        ELSE [ref |-> ref, frames |-> pending])
  ELSE LET id == NewHandle(pending, ref)
       IN  [ref |-> id, frames |-> pending \cup {[id |-> id, mode |-> mode]}]

\* the effect with [isRunning] as its dependencies: a change of controlMode
\* alone runs neither the cleanup nor the body
LoopEffectOnRunOnly(wasRunning, running, mode, ref, pending) ==
  IF wasRunning = running THEN [ref |-> ref, frames |-> pending]
  ELSE LET c == LoopCleanup(wasRunning, ref, pending)
       IN  LoopBody(running, mode, c.ref, c.frames)

LoopEffect(wasRunning, running, mode, ref, pending) ==
  LET c == LoopCleanup(wasRunning, ref, pending)
  IN  LoopBody(running, mode, c.ref, c.frames)

\* an effect on [controlMode] that keeps the trajectory
ModeEffectKeeping(mode, trajectory) == trajectory

\* the effect on [controlMode] (lines 441-445), on the trajectory
ModeEffect(mode, trajectory) == IF mode # "neural" THEN <<>> ELSE trajectory

\* the heuristic controller (lines 462-465 and 492-495)
heuristicAction(current) ==
  IF FGt(FAdd(FAdd(current.theta, FMul(Num(25, 100), current.thetaDot)),
              FMul(Num(5, 100), current.xDot)), 0)
  THEN 1 ELSE 0 - 1

\* the terminal updater recording the steps before the terminal one
MetricsDoneBeforeLast(prev) ==
  [steps |-> 0, totalReward |-> 0, episodes |-> prev.episodes + 1,
   best |-> IF prev.best > prev.steps + 1 THEN prev.best ELSE prev.steps + 1,
   last |-> prev.steps]

\* the terminal updater taking the finished episode as the best one
MetricsDoneBestIsLast(prev) ==
  [steps |-> 0, totalReward |-> 0, episodes |-> prev.episodes + 1,
   best |-> prev.steps + 1, last |-> prev.steps + 1]

\* the reset updater clearing the reward only
MetricsResetRewardOnly(prev) ==
  [steps |-> prev.steps, totalReward |-> 0, episodes |-> prev.episodes,
   best |-> prev.best, last |-> prev.last]

\* setMetrics updaters (lines 501-510, 537-543, 572-578)
MetricsDone(prev) ==
  LET finishedSteps == prev.steps + 1
  IN  [steps |-> 0, totalReward |-> 0, episodes |-> prev.episodes + 1,
       best |-> IF prev.best > finishedSteps THEN prev.best ELSE finishedSteps,
       last |-> finishedSteps]

MetricsStep(prev) ==
  [steps |-> prev.steps + 1, totalReward |-> prev.totalReward + 1,
   episodes |-> prev.episodes, best |-> prev.best, last |-> prev.last]

MetricsReset(prev) ==
  [steps |-> 0, totalReward |-> 0, episodes |-> prev.episodes,
   best |-> prev.best, last |-> prev.last]

\* setTrainingStats updater (lines 520-529)
StatsDone(prev, episodeReward) ==
  [averageReturn |->
     IF prev.averageReturn = 0 THEN episodeReward
     ELSE FAdd(FMul(prev.averageReturn, Num(9, 10)), FMul(episodeReward, Num(1, 10))),
   lastReturn |-> episodeReward]

\* the history variables, from the step the program takes
History(kind, terminal) ==
  /\ clicks' = IF kind \in {"setControlMode", "handleReinitializeNetwork"}
                  /\ (kind = "setControlMode" => controlMode' # controlMode)
               THEN clicks + 1 ELSE clicks
  /\ reinits' = IF kind = "handleReinitializeNetwork" THEN reinits + 1 ELSE reinits
  /\ completed' = IF kind = "loop" /\ terminal THEN completed + 1 ELSE completed
  /\ neuralTicks' =
       IF kind = "loop"
       THEN (IF terminal THEN 0
             ELSE IF controlMode = "neural" THEN neuralTicks + 1 ELSE neuralTicks)
       ELSE IF kind \in {"handleReset", "handleReinitializeNetwork"} THEN 0
       ELSE IF kind = "setControlMode" /\ controlMode' # "neural" THEN 0
       ELSE neuralTicks
  /\ episodeTicks' =
       IF kind = "loop" THEN (IF terminal THEN 0 ELSE episodeTicks + 1)
       ELSE IF kind = "handleReset" THEN 0
       ELSE episodeTicks
  /\ maxLast' =
       IF metrics'.episodes # metrics.episodes /\ metrics'.last > maxLast
       THEN metrics'.last ELSE maxLast
  /\ stepModes' =
       IF trajectoryRef' = <<>> THEN <<>>
       ELSE IF Len(trajectoryRef') = Len(trajectoryRef) + 1
            THEN Append(stepModes, controlMode)
       ELSE stepModes
  \* a click is a discrete event: its render and effects run before it returns
  /\ kind # "loop" => (rendered' = state' /\ effectPending' = FALSE)
  /\ UNCHANGED <<args, returned>>

\* mount (lines 403-434): the first render and the mount effects
Mount ==
  \E rs \in WeightDraws, r1 \in InitDraws, r2 \in InitDraws :
    LET initialNetwork == initializeNetwork(rs)
        clientState == createInitialState(r1, r2)
    IN  /\ isRunning = FALSE
        /\ controlMode = "neural"
        /\ state = clientState
        /\ stateRef = clientState
        /\ metrics = [steps |-> 0, totalReward |-> 0, episodes |-> 0,
                      best |-> 0, last |-> 0]
        /\ animationRef = null
        /\ network = initialNetwork
        /\ networkRef = initialNetwork
        /\ activations = zeroActivations
        /\ trajectoryRef = <<>>
        /\ trainingStats = [averageReturn |-> 0, lastReturn |-> 0]
        /\ frames = {}
        /\ clicks = 0
        /\ completed = 0
        /\ neuralTicks = 0
        /\ episodeTicks = 0
        /\ maxLast = 0
        /\ stepModes = <<>>
        /\ produced = initialNetwork
        /\ trainedModes = {}
        /\ intact = TRUE
        /\ reinits = 0
        /\ rendered = clientState
        /\ effectPending = FALSE

Init == Mount /\ args = noCall /\ returned = noCall

\* loop (lines 456-547): one animation frame, f the callback that fires.
\* A local of the source that is read more than once is bound by \E over the
\* one value it has.  `synchronous` tells whether the render the callback
\* schedules, and the effects of that render, run before the next step.
loopWith(f, synchronous) ==
  /\ f \in frames
  /\ completed < MaxEpisodes
  /\ episodeTicks < MaxSteps
  /\ \E current \in {stateRef},
        neural \in {f.mode \notin {"heuristic", "random"} /\ networkRef # noNetwork} :
     \E stateVector \in {stateToVector(current)},
        r \in Draws(ActionDraws, f.mode = "random" \/ neural) :
     \E fwd \in {IF neural THEN forwardNetwork(networkRef, stateVector)
                 ELSE [hidden |-> <<>>, probs |-> <<>>]} :
     \E actionIndex \in {sampleActionIndex(fwd.probs, r)} :
     \E action \in {IF f.mode = "heuristic" THEN heuristicAction(current)
                    ELSE IF f.mode = "random"
                         THEN (IF FGt(r, Num(5, 10)) THEN 1 ELSE 0 - 1)
                    ELSE IF networkRef # noNetwork
                         THEN (IF actionIndex = 0 THEN 0 - 1 ELSE 1)
                    ELSE heuristicAction(current)},
        pushed \in {IF neural
                    THEN Append(trajectoryRef,
                                [state |-> stateVector, hidden |-> fwd.hidden,
                                 probs |-> fwd.probs, actionIndex |-> actionIndex,
                                 reward |-> Num(1, 1)])
                    ELSE trajectoryRef},
        \* the controlMode under which each step of pushed was recorded
        handedModes \in {IF neural THEN Append(stepModes, controlMode)
                         ELSE stepModes},
        rest \in {frames \ {f}} :
     \E stepped \in {stepCartPole(current, action)},
        id \in {NewHandle(rest, animationRef)} :
       /\ activations' =
            IF neural
            THEN [input |-> stateVector, hidden |-> fwd.hidden,
                  output |-> fwd.probs]
            ELSE activations
       /\ metrics' = IF stepped.done THEN MetricsDone(metrics)
                     ELSE MetricsStep(metrics)
       /\ IF stepped.done /\ f.mode = "neural" /\ networkRef # noNetwork
          THEN \E episodeReward \in {Num(Len(pushed), 1)},
                  updatedNetwork \in {trainOnEpisode(networkRef, pushed)} :
                 /\ trajectoryRef' = <<>>
                 /\ networkRef' = updatedNetwork
                 /\ network' = updatedNetwork
                 /\ produced' = updatedNetwork
                 /\ trainingStats' = StatsDone(trainingStats, episodeReward)
                 /\ trainedModes' =
                      trainedModes \cup {handedModes[i] : i \in 1..Len(pushed)}
                 /\ intact' =
                      (intact /\ trainOnEpisodeArgs(networkRef, pushed)
                                 = [params |-> networkRef, trajectory |-> pushed])
          ELSE /\ trajectoryRef' = pushed
               /\ UNCHANGED <<networkRef, network, produced, trainingStats,
                              trainedModes, intact>>
       /\ \E r1 \in Draws(InitDraws, stepped.done),
             r2 \in Draws(InitDraws, stepped.done) :
            stateRef' = IF stepped.done THEN createInitialState(r1, r2)
                        ELSE stepped.nextState
       /\ state' = stateRef'
       /\ rendered' = IF synchronous THEN state' ELSE rendered
       /\ effectPending' = (~synchronous /\ effectPending)
       /\ animationRef' = id
       /\ frames' = rest \cup {[id |-> id, mode |-> f.mode]}
       /\ UNCHANGED <<isRunning, controlMode>>
       /\ History("loop", stepped.done)

\* an animation frame, the render it schedules and the effects of that
\* render, all before the next callback
loop(f) == loopWith(f, TRUE)

\* toggleRun (lines 559-561) and the render it causes
toggleRun ==
  LET e == LoopEffect(isRunning, ~isRunning, controlMode, animationRef, frames)
  IN  /\ isRunning' = ~isRunning
      /\ animationRef' = e.ref
      /\ frames' = e.frames
      /\ UNCHANGED <<controlMode, state, metrics, network, activations,
                     trainingStats, stateRef, networkRef, trajectoryRef, produced,
                     trainedModes, intact>>
      /\ History("toggleRun", FALSE)

\* a control-mode button (line 661) and the render it causes
setControlMode(mode) ==
  /\ clicks < MaxClicks
  /\ controlMode' = mode
  /\ IF mode = controlMode
     THEN UNCHANGED <<trajectoryRef, animationRef, frames>>
     ELSE LET e == LoopEffect(isRunning, isRunning, mode, animationRef, frames)
          IN  /\ trajectoryRef' = ModeEffect(mode, trajectoryRef)
              /\ animationRef' = e.ref
              /\ frames' = e.frames
  /\ UNCHANGED <<isRunning, state, metrics, network, activations, trainingStats,
                 stateRef, networkRef, produced, trainedModes, intact>>
  /\ History("setControlMode", FALSE)

\* a reset that calls setIsRunning((prev) => !prev)
handleResetToggling ==
  /\ \E r1 \in InitDraws, r2 \in InitDraws :
       LET cancelled == IF animationRef # null
                        THEN cancelAnimationFrame(frames, animationRef)
                        ELSE frames
           resetState == createInitialState(r1, r2)
           e == LoopEffect(isRunning, ~isRunning, controlMode, animationRef,
                           cancelled)
       IN  /\ stateRef' = resetState
           /\ state' = resetState
           /\ isRunning' = ~isRunning
           /\ trajectoryRef' = <<>>
           /\ metrics' = MetricsReset(metrics)
           /\ animationRef' = e.ref
           /\ frames' = e.frames
  /\ UNCHANGED <<controlMode, network, activations, trainingStats, networkRef,
                 produced, trainedModes, intact>>
  /\ History("handleReset", FALSE)

\* handleReset (lines 563-579) and the render it causes
handleReset ==
  /\ \E r1 \in InitDraws, r2 \in InitDraws :
       LET cancelled == IF animationRef # null
                        THEN cancelAnimationFrame(frames, animationRef)
                        ELSE frames
           resetState == createInitialState(r1, r2)
           e == IF isRunning
                THEN LoopEffect(TRUE, FALSE, controlMode, animationRef, cancelled)
                ELSE [ref |-> animationRef, frames |-> cancelled]
       IN  /\ stateRef' = resetState
           /\ state' = resetState
           /\ isRunning' = FALSE
           /\ trajectoryRef' = <<>>
           /\ metrics' = MetricsReset(metrics)
           /\ animationRef' = e.ref
           /\ frames' = e.frames
  /\ UNCHANGED <<controlMode, network, activations, trainingStats, networkRef,
                 produced, trainedModes, intact>>
  /\ History("handleReset", FALSE)

\* a reinitialize that sets the network state and not networkRef.current
handleReinitializeNetworkStateOnly ==
  /\ clicks < MaxClicks
  /\ controlMode = "neural"
  /\ \E rs \in WeightDraws :
       LET freshNetwork == initializeNetwork(rs)
       IN  /\ trajectoryRef' = <<>>
           /\ trainingStats' = [averageReturn |-> 0, lastReturn |-> 0]
           /\ activations' = zeroActivations
           /\ network' = freshNetwork
           /\ produced' = freshNetwork
  /\ UNCHANGED <<isRunning, controlMode, state, metrics, stateRef, animationRef,
                 frames, trainedModes, intact, networkRef>>
  /\ History("handleReinitializeNetwork", FALSE)

\* handleReinitializeNetwork (lines 581-592); its button is rendered in
\* neural mode only (lines 673-680)
handleReinitializeNetwork ==
  /\ clicks < MaxClicks
  /\ controlMode = "neural"
  /\ \E rs \in WeightDraws :
       LET freshNetwork == initializeNetwork(rs)
       IN  /\ trajectoryRef' = <<>>
           /\ trainingStats' = [averageReturn |-> 0, lastReturn |-> 0]
           /\ activations' = zeroActivations
           /\ networkRef' = freshNetwork
           /\ network' = freshNetwork
           /\ produced' = freshNetwork
  /\ UNCHANGED <<isRunning, controlMode, state, metrics, stateRef, animationRef,
                 frames, trainedModes, intact>>
  /\ History("handleReinitializeNetwork", FALSE)

Next ==
  \/ \E f \in frames : loop(f)
  \/ toggleRun
  \/ \E mode \in Modes : setControlMode(mode)
  \/ handleReset
  \/ handleReinitializeNetwork

Spec == Init /\ [][Next]_vars

(***************************************************************************)
(* Home with the render of an animation frame as a step of its own.  A     *)
(* setState call made in an animation-frame callback is not a discrete     *)
(* event: React renders it in a later task, and runs the effects of that   *)
(* commit in a task after that (at the latest before the next render), so  *)
(* an animation frame can fire between the callback and the render, and    *)
(* between the commit and its effects.  Clicks are taken here only while   *)
(* no render and no effect is outstanding, and the runs explored are the   *)
(* first MaxDeferredTicks animation frames of an episode.                  *)
(***************************************************************************)
MaxDeferredTicks == 6

\* loop, the render it schedules still to come
loopDeferred(f) == loopWith(f, FALSE)

\* what render and stateEffect leave alone
RenderFrame ==
  UNCHANGED <<isRunning, controlMode, state, metrics, network, activations,
              trainingStats, animationRef, networkRef, trajectoryRef, frames,
              clicks, completed, neuralTicks, episodeTicks, maxLast, stepModes,
              produced, trainedModes, intact, reinits, args, returned>>

\* the render of the setState calls made since the latest commit; React
\* first runs the effects of that commit if they have not run
render ==
  /\ state # rendered
  /\ stateRef' = IF effectPending THEN rendered ELSE stateRef
  /\ rendered' = state
  /\ effectPending' = TRUE
  /\ RenderFrame

\* the effect of lines 594-596, with the state of the commit that queued it
stateEffect ==
  /\ effectPending
  /\ stateRef' = rendered
  /\ effectPending' = FALSE
  /\ UNCHANGED rendered
  /\ RenderFrame

\* nothing a callback has set is still to be rendered or copied
Settled == state = rendered /\ ~effectPending

NextDeferred ==
  \/ \E f \in frames : episodeTicks < MaxDeferredTicks /\ loopDeferred(f)
  \/ render
  \/ stateEffect
  \/ Settled /\ toggleRun
  \/ Settled /\ handleReset

SpecDeferred == Init /\ [][NextDeferred]_vars
(***************************************************************************)
(* The trainer alone: the episode-end update (lines 512-519) applied once  *)
(* to a parameter set and a trajectory drawn from small sets.              *)
(***************************************************************************)
MaxTrajectory == 2

\* state vectors a step can hold
TrainerVectors ==
  {<<0, 0, 0, 0>>, stateToVector(createInitialState(0, 0)),
   stateToVector(createInitialState(Num(3, 4), Num(3, 4)))}

\* a parameter set with large finite output weights: the first row FMax, the
\* second -FMax, the rest as initializeNetwork leaves it
LargeWeights(rs) ==
  [initializeNetwork(rs) EXCEPT
     !.W2 = Arr([k \in 1..(outputSize * hiddenSize) |->
                   IF k <= hiddenSize THEN FMax ELSE 0 - FMax])]

TrainerParams ==
  {initializeNetwork(rs) : rs \in WeightDraws} \cup
  {LargeWeights(rs) : rs \in WeightDraws}

\* the steps loop records under params (lines 469-482)
TrainerSteps(params) ==
  {[state |-> v, hidden |-> forwardNetwork(params, v).hidden,
    probs |-> forwardNetwork(params, v).probs, actionIndex |-> a,
    reward |-> Num(1, 1)] : v \in TrainerVectors, a \in 0..(outputSize - 1)}

TrainerTrajectories(params) ==
  UNION {[1..n -> TrainerSteps(params)] : n \in 0..MaxTrajectory}

InitTrainer ==
  \E params \in TrainerParams :
    \E trajectory \in TrainerTrajectories(params) :
      \E r1 \in InitDraws, r2 \in InitDraws :
        /\ isRunning = FALSE
        /\ controlMode = "neural"
        /\ state = createInitialState(r1, r2)
        /\ stateRef = state
        /\ metrics = [steps |-> Len(trajectory), totalReward |-> Len(trajectory),
                      episodes |-> 0, best |-> 0, last |-> 0]
        /\ animationRef = null
        /\ network = params
        /\ networkRef = params
        /\ activations = zeroActivations
        /\ trajectoryRef = Arr(trajectory)
        /\ trainingStats = [averageReturn |-> 0, lastReturn |-> 0]
        /\ frames = {}
        /\ clicks = 0
        /\ completed = 0
        /\ neuralTicks = Len(trajectory)
        /\ episodeTicks = Len(trajectory)
        /\ maxLast = 0
        /\ stepModes = Arr([i \in 1..Len(trajectory) |-> "neural"])
        /\ produced = params
        /\ trainedModes = {}
        /\ intact = TRUE
        /\ reinits = 0
        /\ rendered = state
        /\ effectPending = FALSE
        /\ args = noCall
        /\ returned = noCall

\* lines 512-519: the update of the canonical parameters at an episode end
episodeUpdate ==
  /\ completed = 0
  /\ LET updatedNetwork == trainOnEpisode(networkRef, trajectoryRef)
     IN  /\ trajectoryRef' = <<>>
         /\ networkRef' = updatedNetwork
         /\ network' = updatedNetwork
         /\ produced' = updatedNetwork
         /\ trainedModes' =
              trainedModes \cup {stepModes[i] : i \in 1..Len(stepModes)}
         /\ intact' =
              (intact /\ trainOnEpisodeArgs(networkRef, trajectoryRef)
                         = [params |-> networkRef, trajectory |-> trajectoryRef])
  /\ completed' = completed + 1
  /\ neuralTicks' = 0
  /\ stepModes' = <<>>
  /\ UNCHANGED <<isRunning, controlMode, state, metrics, activations,
                 trainingStats, stateRef, animationRef, frames, clicks,
                 episodeTicks, maxLast, reinits, rendered, effectPending,
                 args, returned>>

NextTrainer == episodeUpdate

SpecTrainer == InitTrainer /\ [][NextTrainer]_vars

(***************************************************************************)
(* stepCartPole alone: one call on a state and an action drawn from small  *)
(* sets that put the new position and the new angle inside, at and beyond  *)
(* their limits on either side.                                            *)
(***************************************************************************)
\* every variable of Home as mount leaves it, and no call made yet
NoCallYet == Mount /\ returned = noCall

\* the variables a call of a function on its own leaves alone
CallFrame == UNCHANGED <<homeVars, args>>

\* a limit, the two values next to it, the value one step of unit velocity
\* beyond it, and the same on the negative side
Around(limit) ==
  {0, limit - 1, limit, limit + 1, limit + tau,
   0 - (limit - 1), 0 - limit, 0 - (limit + 1), 0 - (limit + tau)}

StepVelocities == {0 - Num(1, 1), 0, Num(1, 1)}

StepStates ==
  [x : Around(trackLimit) \cup {PosInf, NaN}, xDot : StepVelocities,
   theta : Around(angleLimit), thetaDot : StepVelocities]

InitStep ==
  /\ NoCallYet
  /\ args \in [fn : {"stepCartPole"}, state : StepStates, action : {0 - 1, 1}]

callStepCartPole ==
  /\ args.fn = "stepCartPole"
  /\ returned = noCall
  /\ returned' = [fn |-> "stepCartPole",
                  value |-> stepCartPole(args.state, args.action)]
  /\ CallFrame

NextStep == callStepCartPole

SpecStep == InitStep /\ [][NextStep]_vars

(***************************************************************************)
(* sampleActionIndex alone: one call on a probability vector and a draw of *)
(* Math.random() from small sets.                                          *)
(***************************************************************************)
MaxProbabilities == 3

ProbabilityValues ==
  {0, Num(1, 4), Num(1, 3), Num(1, 2), Num(3, 4), Num(1, 1)}

\* the entries of a vector added up from the left, as the loop does
RECURSIVE CumulativeMass(_, _)
CumulativeMass(probabilities, i) ==
  IF i < 0 THEN 0
  ELSE FAdd(CumulativeMass(probabilities, i - 1), probabilities[i + 1])

\* vectors of 1..MaxProbabilities entries whose sum is 1 up to the rounding
\* of each entry, and the vectors whose entries are all NaN (what softmax
\* returns when a logit is not finite)
ProbabilityVectors ==
  UNION {{v \in [1..n -> ProbabilityValues] :
            Abs(CumulativeMass(v, n - 1) - Num(1, 1)) <= n}
         \cup {[k \in 1..n |-> NaN]} : n \in 1..MaxProbabilities}

\* values of Math.random(): 0, values that equal a cumulative mass, and the
\* largest value below 1
RandomDraws ==
  {0, Num(1, 4), Num(1, 3), Num(1, 2), Num(3, 4), Num(1, 1) - 1}

InitSample ==
  /\ NoCallYet
  /\ \E v \in ProbabilityVectors, r \in RandomDraws :
       args = [fn |-> "sampleActionIndex", probabilities |-> Arr(v), r |-> r]

callSampleActionIndex ==
  /\ args.fn = "sampleActionIndex"
  /\ returned = noCall
  /\ returned' = [fn |-> "sampleActionIndex",
                  value |-> sampleActionIndex(args.probabilities, args.r)]
  /\ CallFrame

NextSample == callSampleActionIndex

SpecSample == InitSample /\ [][NextSample]_vars

(***************************************************************************)
(* The returns loop of trainOnEpisode alone (lines 144-149): one run on a  *)
(* non-empty trajectory whose rewards are drawn from a small set.  The     *)
(* loop reads nothing of a step but its reward.                            *)
(***************************************************************************)
MaxRewards == 3

RewardValues == {0 - Num(1, 1), 0, Num(1, 1), Num(5, 2), PosInf}

RewardTrajectories ==
  UNION {[1..n -> [reward : RewardValues]] : n \in 1..MaxRewards}

InitReturns ==
  /\ NoCallYet
  /\ \E trajectory \in RewardTrajectories :
       args = [fn |-> "returns", trajectory |-> Arr(trajectory)]

callReturns ==
  /\ args.fn = "returns"
  /\ returned = noCall
  /\ returned' = [fn |-> "returns", value |-> Returns(args.trajectory)]
  /\ CallFrame

NextReturns == callReturns

SpecReturns == InitReturns /\ [][NextReturns]_vars

(***************************************************************************)
(* Properties                                                              *)
(***************************************************************************)
\* a step that is one tick of the loop, and one that is a terminal tick
Tick == episodeTicks' = episodeTicks + 1 \/ completed' = completed + 1
TerminalTick == completed' = completed + 1

NonFinite(values) == \E k \in 1..Len(values) : ~IsFinite(values[k])
NonFiniteParams(params) ==
  NonFinite(params.W1) \/ NonFinite(params.b1) \/ NonFinite(params.W2)
    \/ NonFinite(params.b2)
NonFiniteGradients(g) ==
  NonFinite(g.gradW1) \/ NonFinite(g.gradb1) \/ NonFinite(g.gradW2)
    \/ NonFinite(g.gradb2)
FreshNetworks == {initializeNetwork(rs) : rs \in WeightDraws}
FreshStates == {createInitialState(r1, r2) : r1 \in InitDraws, r2 \in InitDraws}

\* C1: in every reachable state the length of the trajectory is the number of
\* ticks executed in neural mode since the trajectory was last cleared (by an
\* episode's end, a switch away from neural, a manual reset or a reinitialize).
TrajectoryCountsNeuralTicks == Len(trajectoryRef) = neuralTicks

\* C1's case: an episode in progress whose trajectory was cleared part-way
\* and has grown again since.
ClearedThenRefilled ==
  /\ Len(trajectoryRef) >= 1
  /\ episodeTicks > Len(trajectoryRef)
  /\ completed >= 1

\* C2: outside neural mode the trajectory is empty, the pending tick is the
\* one of the selected mode, every step of the trajectory was recorded under
\* neural mode, and so was every step ever handed to the trainer.
OnlyNeuralStepsTrained ==
  /\ controlMode # "neural" => trajectoryRef = <<>>
  /\ \A f \in frames : f.mode = controlMode
  /\ \A i \in 1..Len(stepModes) : stepModes[i] = "neural"
  /\ trainedModes \subseteq {"neural"}

\* C2's case: the first episode went through a switch away from neural and
\* back, and its end trained on the neural steps taken after the switch back.
TrainedAfterSwitchBack ==
  /\ completed = 1
  /\ clicks = 2 /\ reinits = 0
  /\ controlMode = "neural"
  /\ trainedModes = {"neural"}
  /\ FLt(0, trainingStats.lastReturn)
  /\ FLt(trainingStats.lastReturn, Num(metrics.last, 1))

\* C3: a terminal tick, in any mode, adds one to the episode count, sets the
\* running step and reward counters to 0, and sets last to the number of
\* ticks of the episode it ends, the terminal one included.
TerminalTickRecordsEpisode ==
  [][TerminalTick =>
       /\ metrics'.episodes = metrics.episodes + 1
       /\ metrics'.steps = 0
       /\ metrics'.totalReward = 0
       /\ metrics'.last = episodeTicks + 1]_vars

\* C3's case: the first episode ended on a tick of the heuristic controller,
\* after a switch of mode within it.
EpisodeEndedUnderHeuristic ==
  /\ completed = 1 /\ metrics.episodes = 1
  /\ metrics.steps = 0 /\ metrics.last > 0
  /\ clicks = 1 /\ reinits = 0 /\ controlMode = "heuristic"
  /\ trainingStats.lastReturn = 0
  /\ activations # zeroActivations

\* C4: best is the largest value last has taken over the completed episodes
\* (0 when there is none), so best >= last; best and the episode count never
\* decrease.
BestIsMaxOfLast ==
  /\ [](metrics.best = maxLast /\ metrics.best >= metrics.last)
  /\ [][/\ metrics'.best >= metrics.best
        /\ metrics'.episodes >= metrics.episodes]_vars

\* C4's case: two episodes completed, the second shorter than the first.
SecondEpisodeShorter ==
  /\ metrics.episodes = 2
  /\ metrics.best > metrics.last
  /\ metrics.last > 0

\* C5: an episode-end update whose accumulated gradient or resulting
\* parameters hold a non-finite value leaves the canonical parameters as
\* they were before it.
NonFiniteUpdateDiscarded ==
  [][(/\ TerminalTick
      /\ trajectoryRef # <<>>
      /\ \/ NonFiniteGradients(Gradients(networkRef, trajectoryRef))
         \/ NonFiniteParams(trainOnEpisode(networkRef, trajectoryRef)))
     => networkRef' = networkRef]_vars

PauseBetweenTicks ==
  /\ ~isRunning => frames = {} /\ animationRef = null
  /\ isRunning => frames = {[id |-> animationRef, mode |-> controlMode]}
  /\ Len(trajectoryRef) <= metrics.steps
  /\ state = stateRef

\* C7's case: paused by the toggle in the middle of an episode.
PausedMidEpisode ==
  /\ ~isRunning
  /\ metrics.steps >= 1
  /\ trajectoryRef # <<>>

\* C8 as stated: the run flag starts PAUSED and changes by the toggle only.
RunFlagChangesByToggleOnly ==
  /\ isRunning = FALSE
  /\ [][isRunning' # isRunning => toggleRun]_vars

\* C8, amended: the run flag starts PAUSED; the toggle flips it; a manual
\* reset leaves it PAUSED whatever it was; no other step changes it.
RunFlagChangesByToggleOrReset ==
  /\ isRunning = FALSE
  /\ [][/\ toggleRun => isRunning' = ~isRunning
        /\ handleReset => ~isRunning'
        /\ isRunning' # isRunning => toggleRun \/ handleReset]_vars

\* C8's case: with no other button used, a manual reset after some ticks of
\* the first episode has left the loop PAUSED.
ResetLeftPaused ==
  /\ ~isRunning
  /\ clicks = 0
  /\ metrics.episodes = 0 /\ metrics.steps = 0
  /\ activations # zeroActivations

\* C9: a manual reset sets the running step and reward counters to 0, empties
\* the trajectory and makes the physical state a fresh initial one; it leaves
\* the episode count, best, last, the parameters and the training statistics.
ResetFrame ==
  [][handleReset =>
       /\ metrics'.steps = 0 /\ metrics'.totalReward = 0
       /\ trajectoryRef' = <<>>
       /\ stateRef' \in FreshStates /\ state' = stateRef'
       /\ metrics'.episodes = metrics.episodes
       /\ metrics'.best = metrics.best
       /\ metrics'.last = metrics.last
       /\ UNCHANGED <<network, networkRef, trainingStats>>]_vars

\* C9's case: with a trained network, a manual reset after the first tick of
\* the next episode.
ResetAfterTraining ==
  /\ clicks = 0
  /\ metrics.episodes >= 1 /\ metrics.steps = 0
  /\ FLt(0, trainingStats.lastReturn)
  /\ trajectoryRef = <<>>
  /\ activations.input = stateToVector(stateRef)

\* C10: a reinitialize makes the canonical parameters a fresh set, sets both
\* training statistics to 0 and empties the trajectory; it leaves the physical
\* state, the metrics, the mode and the run flag; and a neural tick runs its
\* forward pass on the latest parameters produced, so the first one after a
\* reinitialize runs on the fresh set.
ReinitializeFrame ==
  [][/\ handleReinitializeNetwork =>
          /\ networkRef' \in FreshNetworks /\ network' = networkRef'
          /\ trainingStats' = [averageReturn |-> 0, lastReturn |-> 0]
          /\ trajectoryRef' = <<>>
          /\ UNCHANGED <<state, stateRef, metrics, controlMode, isRunning>>
     /\ Tick /\ controlMode = "neural" =>
          activations'.output
            = forwardNetwork(produced, stateToVector(stateRef)).probs]_vars

\* C10's case: after an episode's update, a reinitialize, and then a neural
\* tick on the fresh parameters.
TickAfterReinitialize ==
  /\ reinits = 1 /\ clicks = 1
  /\ completed >= 1
  /\ neuralTicks >= 1
  /\ networkRef \in FreshNetworks
  /\ trainingStats = [averageReturn |-> 0, lastReturn |-> 0]
  /\ activations.output = forwardNetwork(networkRef, activations.input).probs

\* C11: an episode-end update on an empty trajectory returns parameters equal
\* to the ones it was given in every field: W1, b1, W2 and b2.
EmptyTrajectoryKeepsParameters ==
  [][(TerminalTick /\ trajectoryRef = <<>>)
     => /\ networkRef'.W1 = networkRef.W1
        /\ networkRef'.b1 = networkRef.b1
        /\ networkRef'.W2 = networkRef.W2
        /\ networkRef'.b2 = networkRef.b2]_vars

\* C11's case: the update has run on a trajectory that held no step, under
\* parameters with weights as large as a number can be.
EmptyTrajectoryUpdated ==
  /\ completed = 1
  /\ episodeTicks = 0
  /\ trajectoryRef = <<>>
  /\ networkRef.W2[1] = FMax

\* the magnitude of v is strictly beyond limit
Exceeds(v, limit) == v # NaN /\ (v > limit \/ v < 0 - limit)

\* C12: stepCartPole reports terminal exactly when the magnitude of the new
\* position (x + tau * xDot) is strictly beyond trackLimit or the magnitude
\* of the new angle (theta + tau * thetaDot) is strictly beyond angleLimit:
\* inside and at a limit it is non-terminal, beyond it terminal, on the
\* positive and on the negative side alike.
TerminalBeyondLimitsOnly ==
  returned.fn = "stepCartPole" =>
    LET newX == FAdd(args.state.x, FMul(tau, args.state.xDot))
        newTheta == FAdd(args.state.theta, FMul(tau, args.state.thetaDot))
    IN  /\ returned.value.nextState.x = newX
        /\ returned.value.nextState.theta = newTheta
        /\ returned.value.done
              <=> (Exceeds(newX, trackLimit) \/ Exceeds(newTheta, angleLimit))

\* C12's case: a step from a position beyond the track whose new position is
\* exactly the negative limit and whose new angle is exactly the positive
\* limit was reported non-terminal.
SteppedOntoBothLimits ==
  /\ returned.fn = "stepCartPole"
  /\ Exceeds(args.state.x, trackLimit)
  /\ returned.value.nextState.x = 0 - trackLimit
  /\ returned.value.nextState.theta = angleLimit
  /\ ~returned.value.done

\* the indices (from 0) whose cumulative mass is strictly above the draw
MassAbove(probabilities, r) ==
  {i \in 0..(Len(probabilities) - 1) :
     LET c == CumulativeMass(probabilities, i) IN c # NaN /\ c > r}

\* C13: sampleActionIndex returns the smallest index whose cumulative mass
\* probs[0] + ... + probs[i] is strictly above the draw, and the last index
\* when no cumulative mass is; the result is always an index of the vector.
SampleIsFirstIndexAboveDraw ==
  returned.fn = "sampleActionIndex" =>
    LET above == MassAbove(args.probabilities, args.r)
        n == Len(args.probabilities)
    IN  /\ returned.value \in 0..(n - 1)
        /\ above # {} => /\ returned.value \in above
                         /\ \A i \in above : returned.value <= i
        /\ above = {} => returned.value = n - 1

\* C13's case: the entries add up to less than the draw, which is below 1,
\* and the call returned the last index.
SampledPastShortSum ==
  /\ returned.fn = "sampleActionIndex"
  /\ Len(args.probabilities) = MaxProbabilities
  /\ \A k \in 1..MaxProbabilities : args.probabilities[k] > 0
  /\ MassAbove(args.probabilities, args.r) = {}
  /\ returned.value = MaxProbabilities - 1

\* C14: for a trajectory of n >= 1 steps the returns array has n entries, its
\* last entry is the last step's reward, and every earlier entry t is
\* reward[t] + 0.99 * returns[t + 1].
ReturnsAreDiscountedSums ==
  returned.fn = "returns" =>
    LET n == Len(args.trajectory)
    IN  /\ Len(returned.value) = n
        /\ returned.value[n] = args.trajectory[n].reward
        /\ \A t \in 1..(n - 1) :
             returned.value[t] =
               FAdd(args.trajectory[t].reward,
                    FMul(Num(99, 100), returned.value[t + 1]))

\* C14's case: the returns of MaxRewards steps of reward 1, as the loop
\* records them: each one is finite and strictly above the one after it.
ReturnsOfUnitRewards ==
  /\ returned.fn = "returns"
  /\ Len(args.trajectory) = MaxRewards
  /\ \A t \in 1..MaxRewards : args.trajectory[t].reward = Num(1, 1)
  /\ returned.value[MaxRewards] = Num(1, 1)
  /\ \A t \in 1..(MaxRewards - 1) :
       /\ IsFinite(returned.value[t])
       /\ returned.value[t] > returned.value[t + 1]
       /\ returned.value[t] < returned.value[t + 1] + Num(1, 1)

\* C15: when an episode ends in neural mode, the length recorded as
\* trainingStats.lastReturn is the length of the episode that ended, the
\* value the same tick records as metrics.last.
StatisticIsEpisodeLength ==
  [][(TerminalTick /\ controlMode = "neural")
     => trainingStats'.lastReturn = Num(metrics'.last, 1)]_vars

\* C16: every tick reads from stateRef the state the most recent tick or
\* reset stored, which is the value that tick or reset gave to setState.
TickReadsStoredState == [][Tick => stateRef = state]_vars

\* the magnitude of v is at most limit
Within(v, limit) == v # NaN /\ v <= limit /\ v >= 0 - limit

\* C17: the current physical state, in stateRef and as rendered, is never
\* terminal: its position is within trackLimit and its angle within
\* angleLimit; and a fresh initial state has its position within 0.2 and
\* its angle within 0.1 of zero, whatever Math.random() returns.
CurrentStateNonTerminal ==
  /\ Within(stateRef.x, trackLimit)
  /\ Within(stateRef.theta, angleLimit)
  /\ Within(state.x, trackLimit)
  /\ Within(state.theta, angleLimit)
  /\ \A r1 \in RandomDraws, r2 \in RandomDraws :
       /\ Within(createInitialState(r1, r2).x, Num(2, 10))
       /\ Within(createInitialState(r1, r2).theta, Num(1, 10))

\* C17's case: a tick whose step was terminal has put a fresh initial state
\* in place of it, and the ticks after it have brought the pole to less than
\* one step's swing from the limit.
NearLimitAfterFreshStart ==
  /\ completed >= 1
  /\ episodeTicks >= 1
  /\ metrics.last >= 1
  /\ Within(stateRef.theta, angleLimit)
  /\ Exceeds(FAdd(stateRef.theta, FMul(tau, stateRef.thetaDot)), angleLimit)

====
